---------------------------- MODULE Spec2Model ----------------------------
(***************************************************************************)
(* Model of the catalogue parser of src/app.py (MuzayedeParser) together   *)
(* with the collaborators it drives: the Cloudinary asset store, the       *)
(* st.warning channel and the progress callback.                           *)
(*                                                                         *)
(* A text is a sequence of one-character strings (<<>> is the empty        *)
(* string); a node is the dict built at src/app.py:278 without its "elem". *)
(* Python indexes from 0, TLA+ sequences from 1: every index of the model  *)
(* (i, j, k) is the source's index plus one, so "i < len(nodes)" reads     *)
(* i <= Len(nodes) and lines[2:] reads "positions 3 and up".               *)
(***************************************************************************)
EXTENDS Integers, Sequences, FiniteSets, TLC

VARIABLES
    nodes,           \* the node list built from the document (l.273-278)
    upload_images,   \* argument of parse
    has_callback,    \* progress_callback is not None
    toplam_eser,     \* l.281
    artworks,        \* l.286, the list under construction
    lot_counter,     \* l.287
    i, j, k,         \* cursors of the three loops
    sahip, lines,    \* locals of the lot being built (l.310, l.313)
    pc,              \* position of the running parse
    cloudinary,      \* asset store: public_id -> bytes stored under it
    asset_log,       \* per lot of the running parse, how l.338-344 ended
    warnings,        \* the st.warning calls of the running parse
    progress_calls,  \* the progress_callback calls of the running parse
    spans,           \* per appended lot: the (i, j, k) it was built from
    n_calls,         \* number of parse calls so far
    prev,            \* what the caller holds from the last call that returned
    peer_counter,    \* lot_counter of a parse of another document running alongside
    uploaded_file,   \* the file held by the sidebar's file_uploader, or NoFile
    checkbox,        \* state of the checkbox "Görselleri yükle"
    yukleniyor,      \* st.session_state["yukleniyor"]
    cache,           \* the docx_bytes_<name> entries of st.session_state
    file_key,        \* _do_upload's local file_key while it runs, else NoKey
    db,              \* the batches insert_many has written, in order
    auth_state,      \* the keys authenticated and login_time of st.session_state
    clock,           \* datetime.now(), in hours
    view             \* what the last Application.run rendered

(* What lies outside one parse call: the parse alongside and the sidebar.  *)
outer == <<peer_counter, uploaded_file, checkbox, yukleniyor, cache, file_key, db>>

(* The login session and the clock it is measured by.                     *)
session == <<auth_state, clock, view>>

vars == <<nodes, upload_images, has_callback, toplam_eser, artworks,
          lot_counter, i, j, k, sahip, lines, pc, cloudinary, asset_log,
          warnings, progress_calls, spans, n_calls, prev, outer, session>>

---------------------------------------------------------------------------
(* Bounds of the model.                                                    *)
MaxNodes == 4       \* longest document of ShortDocs
MaxTail  == 7       \* longest caption block tail of LongDocs
MaxRuns  == 2       \* parse calls in one behaviour
MaxTextLen == 4     \* longest text the monetary predicate is applied to
MaxStoreLots == 2   \* most lots in a document of StoreDocs
MaxPasses == 2      \* parse passes over documents of StoreDocs
MaxClock == 6       \* hours the clock runs

(* Only the documents of ShortDocs are parsed more than once.              *)
RunsFor(ns) == IF Len(ns) <= MaxNodes THEN MaxRuns ELSE 1

(* Mutant: the cap is one line too many.                                   *)
LINE_CAP_Seven == 6 + 1

(* The cap on collected lines, src/app.py:315.                             *)
LINE_CAP == 6

---------------------------------------------------------------------------
(* Texts and nodes.                                                        *)
EMPTY == <<>>

Node(text, is_img) == [text |-> text, is_img |-> is_img]

TxtA == <<"A">>
TxtP == <<"9", "0", "T", "L">>
TxtOwner == <<"G">>
TxtOwner2 == <<"H">>

DigitChars == <<"1", "2", "3", "4", "5", "6", "7", "8", "9">>

(* A plain line and a price line that carry their position in the block.   *)
PlainAt(p) == <<"L", DigitChars[p]>>
PriceAt(p) == <<DigitChars[p], "0", " ", "t", "l">>

ShortAlphabet ==
    { Node(EMPTY, FALSE), Node(TxtA, FALSE), Node(TxtP, FALSE),
      Node(EMPTY, TRUE), Node(TxtA, TRUE) }

ShortDocs == UNION { [1..n -> ShortAlphabet] : n \in 0..MaxNodes }

(* Documents for the asset store: an optional plain paragraph or           *)
(* captionless image, then up to MaxStoreLots captioned images.            *)
StoreLeads == { <<>>, <<Node(TxtA, FALSE)>>, <<Node(EMPTY, TRUE)>> }

StoreUnit == << Node(EMPTY, TRUE), Node(TxtOwner, FALSE) >>

RECURSIVE UnitsOf(_)
UnitsOf(n) == IF n = 0 THEN <<>> ELSE UnitsOf(n - 1) \o StoreUnit

StoreDocs == { lead \o UnitsOf(n) : lead \in StoreLeads, n \in 1..MaxStoreLots }

(* Files for the sidebar: two file names, and documents with no lot, with  *)
(* a captionless image and one lot, and with two lots.                     *)
UiNames == {"a.docx", "b.docx"}

DocNone == <<Node(TxtA, FALSE)>>
DocOne == <<Node(EMPTY, TRUE)>> \o StoreUnit
DocTwo == <<Node(TxtA, FALSE)>> \o StoreUnit \o <<Node(EMPTY, TRUE), Node(TxtOwner2, FALSE)>>

UiDocs == {DocNone, DocOne, DocTwo}

TailChoices(p) == { Node(EMPTY, FALSE), Node(PlainAt(p), FALSE), Node(PriceAt(p), FALSE) }

RECURSIVE TailsOf(_)
TailsOf(n) ==
    IF n = 0 THEN { <<>> }
    ELSE { Append(t, c) : t \in TailsOf(n - 1), c \in TailChoices(n) }

Tails == UNION { TailsOf(n) : n \in 0..MaxTail }

(* A captionless image, a captioned image, its block, and maybe a second   *)
(* lot.                                                                    *)
LongPrefix == << Node(EMPTY, TRUE), Node(EMPTY, TRUE), Node(TxtOwner, FALSE) >>
LongSuffix == << Node(EMPTY, TRUE), Node(TxtOwner2, FALSE) >>

LongDocs == { LongPrefix \o t \o s : t \in Tails, s \in { <<>>, LongSuffix } }

---------------------------------------------------------------------------
(* _is_fiyat: re.search(r'\d[\d\.,]+\s*(TL|₺)', text, re.IGNORECASE).      *)
(* The lira sign is the one-character token "LIRA".                        *)
IsDigit(c) == c \in {"0", "1", "2", "3", "4", "5", "6", "7", "8", "9"}
IsGroupChar(c) == IsDigit(c) \/ c \in {".", ","}
IsSpace(c) == c \in {" ", "\t"}

MarkerAt(text, m) ==
    \/ /\ m + 1 <= Len(text)
       /\ text[m] \in {"T", "t"}
       /\ text[m + 1] \in {"L", "l"}
    \/ /\ m <= Len(text)
       /\ text[m] = "LIRA"

IsFiyat(text) ==
    \E s \in 1..Len(text) : \E e \in (s + 1)..Len(text) : \E m \in (e + 1)..Len(text) :
        /\ IsDigit(text[s])
        /\ \A x \in (s + 1)..e : IsGroupChar(text[x])
        /\ \A x \in (e + 1)..(m - 1) : IsSpace(text[x])
        /\ MarkerAt(text, m)

---------------------------------------------------------------------------
(* Documents for the monetary predicate: a plain paragraph, a captionless  *)
(* image, then one lot whose third and last collected line is any          *)
(* stripped, non-empty text of up to MaxTextLen characters; the lines      *)
(* before it are plain, so the sale price is decided by that text.         *)
FiyatChars == {"5", ",", " ", "T", "l", "LIRA", "x"}

RECURSIVE FiyatStrings(_)
FiyatStrings(n) ==
    IF n = 0 THEN {<<>>}
    ELSE LET shorter == FiyatStrings(n - 1)
         IN  shorter \cup { Append(t, c) : t \in { x \in shorter : Len(x) = n - 1 },
                                           c \in FiyatChars }

(* l.275: a node's text is stripped.                                       *)
IsStripped(t) == t = EMPTY \/ (~IsSpace(t[1]) /\ ~IsSpace(t[Len(t)]))

FiyatTexts == { t \in FiyatStrings(MaxTextLen) : t # EMPTY /\ IsStripped(t) }

FiyatPrefix ==
    << Node(TxtA, FALSE), Node(EMPTY, TRUE), Node(EMPTY, TRUE),
       Node(TxtOwner, FALSE), Node(TxtA, FALSE), Node(TxtA, FALSE) >>

FiyatDocs == { Append(FiyatPrefix, Node(t, FALSE)) : t \in FiyatTexts }

---------------------------------------------------------------------------
(* The pure parts of parse.                                                *)

(* Mutant: every image counts, the last node included.                     *)
ToplamEser_AllImages(ns) == Cardinality({ idx \in 1..Len(ns) : ns[idx].is_img })

(* Mutant: an image counts only with two nodes after it.                   *)
ToplamEser_TwoAfter(ns) ==
    Cardinality({ idx \in 1..Len(ns) : ns[idx].is_img /\ idx + 2 <= Len(ns) })

(* l.281-284: images that have a node after them.                          *)
ToplamEser(ns) ==
    Cardinality({ idx \in 1..Len(ns) : ns[idx].is_img /\ idx + 1 <= Len(ns) })

(* l.300-302: first node from `from` on that has text or is an image.      *)
RECURSIVE FindCaption(_, _)
FindCaption(ns, from) ==
    IF from <= Len(ns) /\ ns[from].text = EMPTY /\ ~ns[from].is_img
    THEN FindCaption(ns, from + 1)
    ELSE from

(* Mutant: only the end of the document makes an image captionless.       *)
IsCaptionless_EndOnly(ns, jj) == jj > Len(ns)

(* l.305 *)
IsCaptionless(ns, jj) == IF jj > Len(ns) THEN TRUE ELSE ns[jj].is_img

(* Mutant: the cursor stays on a captionless image.                        *)
AfterCaptionless_Stay(ii, jj) == ii

(* Mutant: the cursor jumps past the node the lookahead stopped at.        *)
AfterCaptionless_Jump(ii, jj) == jj + 1

(* l.306: where the cursor goes after a captionless image at ii.           *)
AfterCaptionless(ii, jj) == ii + 1

(* Mutant: the counter steps by two.                                       *)
NextLotNo_Skip(counter) == counter + 2

(* l.309 *)
NextLotNo(counter) == counter + 1

(* Mutant: a text-less node never ends the block.                          *)
RECURSIVE CollectLines_NoTerminator(_, _, _)
CollectLines_NoTerminator(ns, kk, acc) ==
    IF kk <= Len(ns) /\ Len(acc) < LINE_CAP
    THEN IF ns[kk].is_img
         THEN [lines |-> acc, k |-> kk]
         ELSE IF ns[kk].text # EMPTY
              THEN CollectLines_NoTerminator(ns, kk + 1, Append(acc, ns[kk].text))
              ELSE CollectLines_NoTerminator(ns, kk + 1, acc)
    ELSE [lines |-> acc, k |-> kk]

(* l.313-324: returns the collected lines and the stop index k.            *)
RECURSIVE CollectLines(_, _, _)
CollectLines(ns, kk, acc) ==
    IF kk <= Len(ns) /\ Len(acc) < LINE_CAP
    THEN IF ns[kk].is_img
         THEN [lines |-> acc, k |-> kk]
         ELSE IF ns[kk].text # EMPTY
              THEN CollectLines(ns, kk + 1, Append(acc, ns[kk].text))
              ELSE IF kk + 1 <= Len(ns) /\ ns[kk + 1].text = EMPTY
                   THEN [lines |-> acc, k |-> kk]
                   ELSE CollectLines(ns, kk + 1, acc)
    ELSE [lines |-> acc, k |-> kk]

(* Mutant: the index is taken one too far.                                 *)
LineOr_Shifted(ls, n) == IF Len(ls) > n THEN ls[n + 1] ELSE EMPTY

(* l.326-328: lines[n-1] if len(lines) > n-1 else "".                      *)
LineOr(ls, n) == IF Len(ls) > n - 1 THEN ls[n] ELSE EMPTY

(* l.330-334: last line of lines[2:] that _is_fiyat, else "".              *)
RECURSIVE ScanFiyat(_, _)
ScanFiyat(ls, n) ==
    IF n < 3 THEN EMPTY
    ELSE IF IsFiyat(ls[n]) THEN ls[n]
    ELSE ScanFiyat(ls, n - 1)

(* Mutant: the scan runs forward, the first match wins.                    *)
SatisFiyati_First(ls) ==
    LET P == { x \in 3..Len(ls) : IsFiyat(ls[x]) }
    IN  IF P = {} THEN EMPTY ELSE ls[CHOOSE x \in P : \A y \in P : x <= y]

SatisFiyati(ls) == ScanFiyat(ls, Len(ls))

(* l.340 and the URL Cloudinary answers with for that public_id.           *)
PublicId(n) == <<"lot", n>>
SecureUrl(public_id) == <<"url", public_id>>

(* l.252: the blob behind the image paragraph at index ii of document ns.  *)
ImgBytes(ns, ii) == <<"blob", ns, ii>>

(* Mutant: overwrite=False, the first asset of a key stays.                *)
StoreAfter_KeepFirst(store, public_id, bytes) ==
    [ key \in DOMAIN store \cup {public_id} |->
        IF key \in DOMAIN store THEN store[key] ELSE bytes ]

(* l.208-211: upload(image_bytes, public_id=..., overwrite=True) puts the  *)
(* bytes in the slot of public_id, whatever was there.                     *)
StoreAfter(store, public_id, bytes) ==
    [ key \in DOMAIN store \cup {public_id} |->
        IF key = public_id THEN bytes ELSE store[key] ]

(* Mutant: done is counted from zero.                                      *)
ProgressArgs_ZeroBased(counter, total) == [done |-> counter - 1, total |-> total]

(* l.357: the arguments of progress_callback.                              *)
ProgressArgs(counter, total) == [done |-> counter, total |-> total]

(* Mutant: a URL comes back whatever happened.                             *)
GorselUrl_Always(step, public_id) == SecureUrl(public_id)

(* l.336-344: gorsel_url once the asset step ended as `step`.              *)
GorselUrl(step, public_id) ==
    IF step = "upload_ok" THEN SecureUrl(public_id) ELSE EMPTY

(* l.343-344: the only st.warning of parse is in the except clause.        *)
WarningsAfter(ws, step, lot_no) ==
    IF step = "upload_raised" THEN Append(ws, lot_no) ELSE ws

(* Mutant: the counter outlives the call.                                  *)
StartCounter_Keep(old) == old

(* l.287 *)
StartCounter(old) == 0

(* Mutant: a lot whose image did not make it loses its detail line too.    *)
MakeLot_FailureBlanks(lot_no, owner, ls, url) ==
    [ lot_no       |-> lot_no,
      sahip        |-> owner,
      sanatci      |-> LineOr(ls, 1),
      eser_adi     |-> LineOr(ls, 2),
      detay        |-> IF url = EMPTY THEN EMPTY ELSE LineOr(ls, 3),
      gorsel_url   |-> url,
      satis_fiyati |-> SatisFiyati(ls) ]

(* l.346-354 *)
MakeLot(lot_no, owner, ls, url) ==
    [ lot_no       |-> lot_no,
      sahip        |-> owner,
      sanatci      |-> LineOr(ls, 1),
      eser_adi     |-> LineOr(ls, 2),
      detay        |-> LineOr(ls, 3),
      gorsel_url   |-> url,
      satis_fiyati |-> SatisFiyati(ls) ]

(* l.290-361 with upload_images=False and no callback, as one function:    *)
(* the lots from cursor ii on, the counter standing at `counter`.          *)
RECURSIVE ParseNoUpload(_, _, _)
ParseNoUpload(ns, ii, counter) ==
    IF ii > Len(ns) THEN <<>>
    ELSE IF ~ns[ii].is_img THEN ParseNoUpload(ns, ii + 1, counter)
    ELSE LET jj == FindCaption(ns, ii + 1) IN
         IF IsCaptionless(ns, jj)
         THEN ParseNoUpload(ns, AfterCaptionless(ii, jj), counter)
         ELSE LET n == NextLotNo(counter)
                  c == CollectLines(ns, jj + 1, <<>>)
                  lot == MakeLot(n, ns[jj].text, c.lines, GorselUrl("skipped", PublicId(n)))
              IN  <<lot>> \o ParseNoUpload(ns, c.k, n)

(* l.468, l.508: kayitlar = MuzayedeParser.parse(doc, upload_images=False). *)
Kayitlar(ns) == ParseNoUpload(ns, 1, StartCounter(0))

(* A parse of another document running alongside: a plain paragraph, then  *)
(* MaxStoreLots captioned images, its n-th image at index PeerImage(n).    *)
PeerDoc == <<Node(TxtP, FALSE)>> \o UnitsOf(MaxStoreLots)
PeerImage(n) == n + n

---------------------------------------------------------------------------
(* The caller holds no list yet.                                           *)
NoPrev == [valid |-> FALSE, upload_images |-> FALSE, nodes |-> <<>>, lots |-> <<>>]

(* l.443-448: the file_uploader holds no file; l.492-494: no key found.    *)
NoFile == [name |-> "", doc |-> <<>>]
NoKey == ""

(* Initial states: a document is loaded, parse has not been called.        *)
InitRest ==
    /\ upload_images = FALSE
    /\ has_callback = FALSE
    /\ toplam_eser = 0
    /\ artworks = <<>>
    /\ lot_counter = 0
    /\ i = 1 /\ j = 1 /\ k = 1
    /\ sahip = EMPTY
    /\ lines = <<>>
    /\ pc = "idle"
    /\ cloudinary = <<>>
    /\ asset_log = <<>>
    /\ warnings = <<>>
    /\ progress_calls = <<>>
    /\ spans = <<>>
    /\ n_calls = 0
    /\ prev = NoPrev
    /\ peer_counter = 0
    /\ uploaded_file = NoFile
    /\ checkbox = TRUE
    /\ yukleniyor = FALSE
    /\ cache = <<>>
    /\ file_key = NoKey
    /\ db = <<>>
    /\ auth_state = <<>>
    /\ clock = 0
    /\ view = "none"

Init == nodes \in ShortDocs /\ InitRest

InitFiyat == nodes \in FiyatDocs /\ InitRest

(* No document has been parsed yet.                                        *)
InitStore == nodes = <<>> /\ InitRest

InitLong == nodes \in LongDocs /\ InitRest

---------------------------------------------------------------------------
(* parse, l.256-361.                                                       *)

(* l.270-288: entry of parse(doc, upload_images, progress_callback), doc   *)
(* being the document with node list d.                                    *)
ParseEntry(d, u, cb) ==
    /\ pc \in {"idle", "done", "raised"}
    /\ nodes' = d
    /\ upload_images' = u
    /\ has_callback' = cb
    /\ toplam_eser' = ToplamEser(d)
    /\ artworks' = <<>>
    /\ lot_counter' = StartCounter(lot_counter)
    /\ i' = 1
    /\ asset_log' = <<>>
    /\ warnings' = <<>>
    /\ progress_calls' = <<>>
    /\ spans' = <<>>
    /\ n_calls' = n_calls + 1
    /\ prev' = IF pc = "done"
               THEN [valid |-> TRUE, upload_images |-> upload_images,
                     nodes |-> nodes, lots |-> artworks]
               ELSE prev
    /\ pc' = "scan"
    /\ UNCHANGED <<j, k, sahip, lines, cloudinary>>

(* A call of parse on the loaded document.                                 *)
StartParse(u, cb) ==
    /\ n_calls < RunsFor(nodes)
    /\ ParseEntry(nodes, u, cb)
    /\ UNCHANGED outer
    /\ UNCHANGED session

(* l.293-295 *)
SkipNonImage ==
    /\ pc = "scan"
    /\ i <= Len(nodes)
    /\ ~nodes[i].is_img
    /\ i' = i + 1
    /\ UNCHANGED outer
    /\ UNCHANGED session
    /\ UNCHANGED <<nodes, upload_images, has_callback, toplam_eser, artworks,
                   lot_counter, j, k, sahip, lines, pc, cloudinary, asset_log,
                   warnings, progress_calls, spans, n_calls, prev>>

(* l.297-307 *)
Captionless ==
    /\ pc = "scan"
    /\ i <= Len(nodes)
    /\ nodes[i].is_img
    /\ LET jj == FindCaption(nodes, i + 1) IN
        /\ IsCaptionless(nodes, jj)
        /\ j' = jj
        /\ i' = AfterCaptionless(i, jj)
    /\ UNCHANGED outer
    /\ UNCHANGED session
    /\ UNCHANGED <<nodes, upload_images, has_callback, toplam_eser, artworks,
                   lot_counter, k, sahip, lines, pc, cloudinary, asset_log,
                   warnings, progress_calls, spans, n_calls, prev>>

(* l.297-334: a captioned image; the text fields of its lot are fixed.     *)
BeginLot ==
    /\ pc = "scan"
    /\ i <= Len(nodes)
    /\ nodes[i].is_img
    /\ LET jj == FindCaption(nodes, i + 1) IN
        /\ ~IsCaptionless(nodes, jj)
        /\ j' = jj
        /\ lot_counter' = NextLotNo(lot_counter)
        /\ sahip' = nodes[jj].text
        /\ LET c == CollectLines(nodes, jj + 1, <<>>) IN
            /\ lines' = c.lines
            /\ k' = c.k
    /\ pc' = "asset"
    /\ UNCHANGED outer
    /\ UNCHANGED session
    /\ UNCHANGED <<nodes, upload_images, has_callback, toplam_eser, artworks, i,
                   cloudinary, asset_log, warnings, progress_calls, spans,
                   n_calls, prev>>

(* l.346-354, after the asset step left `url` in gorsel_url.               *)
AppendLot(url) ==
    /\ artworks' = Append(artworks, MakeLot(lot_counter, sahip, lines, url))
    /\ spans' = Append(spans, [i |-> i, j |-> j, k |-> k])
    /\ pc' = "notify"

(* l.336-337 with upload_images false.                                     *)
AssetSkipped ==
    /\ pc = "asset"
    /\ ~upload_images
    /\ AppendLot(GorselUrl("skipped", PublicId(lot_counter)))
    /\ UNCHANGED outer
    /\ UNCHANGED session
    /\ UNCHANGED <<nodes, upload_images, has_callback, toplam_eser, lot_counter,
                   i, j, k, sahip, lines, cloudinary, asset_log, warnings,
                   progress_calls, n_calls, prev>>

(* l.338-339 with _extract_image_bytes (l.242-254) returning None or b"".  *)
ExtractNothing ==
    /\ pc = "asset"
    /\ upload_images
    /\ asset_log' = Append(asset_log, [lot_no |-> lot_counter, step |-> "extract_none"])
    /\ warnings' = WarningsAfter(warnings, "extract_none", lot_counter)
    /\ AppendLot(GorselUrl("extract_none", PublicId(lot_counter)))
    /\ UNCHANGED outer
    /\ UNCHANGED session
    /\ UNCHANGED <<nodes, upload_images, has_callback, toplam_eser, lot_counter,
                   i, j, k, sahip, lines, cloudinary, progress_calls, n_calls, prev>>

(* l.338-342 with CloudinaryService.upload (l.201-216) answering a URL.    *)
UploadOk ==
    /\ pc = "asset"
    /\ upload_images
    /\ LET public_id == PublicId(lot_counter) IN
        /\ cloudinary' = StoreAfter(cloudinary, public_id, ImgBytes(nodes, i))
        /\ asset_log' = Append(asset_log, [lot_no |-> lot_counter, step |-> "upload_ok"])
        /\ warnings' = WarningsAfter(warnings, "upload_ok", lot_counter)
        /\ AppendLot(GorselUrl("upload_ok", public_id))
    /\ UNCHANGED outer
    /\ UNCHANGED session
    /\ UNCHANGED <<nodes, upload_images, has_callback, toplam_eser, lot_counter,
                   i, j, k, sahip, lines, progress_calls, n_calls, prev>>

(* l.338-344 with CloudinaryService.upload raising.                        *)
UploadFails ==
    /\ pc = "asset"
    /\ upload_images
    /\ asset_log' = Append(asset_log, [lot_no |-> lot_counter, step |-> "upload_raised"])
    /\ warnings' = WarningsAfter(warnings, "upload_raised", lot_counter)
    /\ AppendLot(GorselUrl("upload_raised", PublicId(lot_counter)))
    /\ UNCHANGED outer
    /\ UNCHANGED session
    /\ UNCHANGED <<nodes, upload_images, has_callback, toplam_eser, lot_counter,
                   i, j, k, sahip, lines, cloudinary, progress_calls, n_calls, prev>>

(* l.356-359 with the callback, if any, returning.                         *)
Notify ==
    /\ pc = "notify"
    /\ progress_calls' =
          IF has_callback
          THEN Append(progress_calls, ProgressArgs(lot_counter, toplam_eser))
          ELSE progress_calls
    /\ i' = k
    /\ pc' = "scan"
    /\ UNCHANGED outer
    /\ UNCHANGED session
    /\ UNCHANGED <<nodes, upload_images, has_callback, toplam_eser, artworks,
                   lot_counter, j, k, sahip, lines, cloudinary, asset_log,
                   warnings, spans, n_calls, prev>>

(* l.356-357 with the callback called and raising: nothing in parse        *)
(* catches it.                                                             *)
CallbackRaises ==
    /\ pc = "notify"
    /\ has_callback
    /\ progress_calls' = Append(progress_calls, ProgressArgs(lot_counter, toplam_eser))
    /\ pc' = "raised"
    /\ UNCHANGED outer
    /\ UNCHANGED session
    /\ UNCHANGED <<nodes, upload_images, has_callback, toplam_eser, artworks,
                   lot_counter, i, j, k, sahip, lines, cloudinary, asset_log,
                   warnings, spans, n_calls, prev>>

(* l.290 false, l.361 *)
Return ==
    /\ pc = "scan"
    /\ i > Len(nodes)
    /\ pc' = "done"
    /\ UNCHANGED outer
    /\ UNCHANGED session
    /\ UNCHANGED <<nodes, upload_images, has_callback, toplam_eser, artworks,
                   lot_counter, i, j, k, sahip, lines, cloudinary, asset_log,
                   warnings, progress_calls, spans, n_calls, prev>>

Next ==
    \/ \E u \in BOOLEAN, cb \in BOOLEAN : StartParse(u, cb)
    \/ SkipNonImage
    \/ Captionless
    \/ BeginLot
    \/ AssetSkipped
    \/ ExtractNothing
    \/ UploadOk
    \/ UploadFails
    \/ Notify
    \/ CallbackRaises
    \/ Return

Spec == Init /\ [][Next]_vars

SpecFiyat == InitFiyat /\ [][Next]_vars

(* parse called on any document of StoreDocs, pass after pass, against the *)
(* same asset store.                                                       *)
ParseDocument(d, u, cb) ==
    /\ n_calls < MaxPasses
    /\ ParseEntry(d, u, cb)
    /\ UNCHANGED outer
    /\ UNCHANGED session

NextStore ==
    \/ \E d \in StoreDocs, u \in BOOLEAN, cb \in BOOLEAN : ParseDocument(d, u, cb)
    \/ SkipNonImage
    \/ Captionless
    \/ BeginLot
    \/ AssetSkipped
    \/ ExtractNothing
    \/ UploadOk
    \/ UploadFails
    \/ Notify
    \/ CallbackRaises
    \/ Return

SpecStore == InitStore /\ [][NextStore]_vars

(* l.338-342 in the parse alongside: it stores its next image under the    *)
(* key its own lot_counter gives.                                          *)
PeerUpload ==
    /\ peer_counter < MaxStoreLots
    /\ LET n == NextLotNo(peer_counter) IN
        /\ cloudinary' = StoreAfter(cloudinary, PublicId(n), ImgBytes(PeerDoc, PeerImage(n)))
        /\ peer_counter' = n
    /\ UNCHANGED <<uploaded_file, checkbox, yukleniyor, cache, file_key, db>>
    /\ UNCHANGED session
    /\ UNCHANGED <<nodes, upload_images, has_callback, toplam_eser, artworks,
                   lot_counter, i, j, k, sahip, lines, pc, asset_log, warnings,
                   progress_calls, spans, n_calls, prev>>

NextPeer ==
    \/ \E d \in StoreDocs, u \in BOOLEAN, cb \in BOOLEAN : ParseDocument(d, u, cb)
    \/ SkipNonImage
    \/ Captionless
    \/ BeginLot
    \/ AssetSkipped
    \/ ExtractNothing
    \/ UploadOk
    \/ UploadFails
    \/ Notify
    \/ CallbackRaises
    \/ Return
    \/ PeerUpload

SpecPeer == InitStore /\ [][NextPeer]_vars

(* One call of parse, run to its end: once called, the interpreter takes   *)
(* the next step of the loop whenever there is one.                        *)
ParseOnce(u, cb) ==
    /\ n_calls = 0
    /\ ParseEntry(nodes, u, cb)
    /\ UNCHANGED outer
    /\ UNCHANGED session

ParseStep ==
    \/ SkipNonImage
    \/ Captionless
    \/ BeginLot
    \/ AssetSkipped
    \/ ExtractNothing
    \/ UploadOk
    \/ UploadFails
    \/ Notify
    \/ CallbackRaises
    \/ Return

NextTerm ==
    \/ \E u \in BOOLEAN, cb \in BOOLEAN : ParseOnce(u, cb)
    \/ ParseStep

SpecTerm == Init /\ [][NextTerm]_vars /\ WF_vars(ParseStep)

SpecLong == InitLong /\ [][Next]_vars

---------------------------------------------------------------------------
(* MainView, l.405-541. One action is one script run, or one stretch of    *)
(* _do_upload between two steps of the parse it calls.                     *)

(* l.462-464: the bytes are stored under docx_bytes_<name> only when the   *)
(* session has no such key yet. The key is modelled by the file name.      *)
CacheAfter(c, f) ==
    IF f.name \in DOMAIN c THEN c
    ELSE [ key \in DOMAIN c \cup {f.name} |-> IF key = f.name THEN f.doc ELSE c[key] ]

(* l.535: del st.session_state[file_key].                                  *)
CacheWithout(c, key) == [ x \in DOMAIN c \ {key} |-> c[x] ]

(* l.454-455: _handle_file_upload runs when a file is held and no upload   *)
(* is going on.                                                            *)
CacheAfterRender(c, f) == IF f = NoFile THEN c ELSE CacheAfter(c, f)

(* l.500: st.session_state.get("gorsel_yukle_tercih", True). No line of    *)
(* the program writes that key, so get answers its default.                *)
GorselYukleTercih == TRUE

(* The user picks a file; the script runs: l.443-455, l.460-487 without a  *)
(* click on the button.                                                    *)
SelectFile(name, doc) ==
    /\ ~yukleniyor
    /\ uploaded_file' = [name |-> name, doc |-> doc]
    /\ cache' = CacheAfterRender(cache, uploaded_file')
    /\ UNCHANGED <<peer_counter, checkbox, yukleniyor, file_key, db>>
    /\ UNCHANGED session
    /\ UNCHANGED <<nodes, upload_images, has_callback, toplam_eser, artworks,
                   lot_counter, i, j, k, sahip, lines, pc, cloudinary, asset_log,
                   warnings, progress_calls, spans, n_calls, prev>>

(* The user removes the file from the uploader; l.454 is false then.       *)
RemoveFile ==
    /\ ~yukleniyor
    /\ uploaded_file # NoFile
    /\ uploaded_file' = NoFile
    /\ UNCHANGED <<peer_counter, checkbox, yukleniyor, cache, file_key, db>>
    /\ UNCHANGED session
    /\ UNCHANGED <<nodes, upload_images, has_callback, toplam_eser, artworks,
                   lot_counter, i, j, k, sahip, lines, pc, cloudinary, asset_log,
                   warnings, progress_calls, spans, n_calls, prev>>

(* The user ticks or unticks "Görselleri yükle" (l.450-452); the value     *)
(* goes to _handle_file_upload (l.455), which does not use it.             *)
ToggleCheckbox ==
    /\ ~yukleniyor
    /\ checkbox' = ~checkbox
    /\ cache' = CacheAfterRender(cache, uploaded_file)
    /\ UNCHANGED <<peer_counter, uploaded_file, yukleniyor, file_key, db>>
    /\ UNCHANGED session
    /\ UNCHANGED <<nodes, upload_images, has_callback, toplam_eser, artworks,
                   lot_counter, i, j, k, sahip, lines, pc, cloudinary, asset_log,
                   warnings, progress_calls, spans, n_calls, prev>>

(* l.466-484: the preview of the stored bytes has lots, the button is      *)
(* shown and the user clicks it. An upload calls parse twice; at most      *)
(* MaxPasses uploads are started.                                          *)
ClickAdd ==
    /\ ~yukleniyor
    /\ n_calls < MaxPasses + MaxPasses
    /\ uploaded_file # NoFile
    /\ uploaded_file.name \in DOMAIN cache
    /\ Kayitlar(cache[uploaded_file.name]) # <<>>
    /\ yukleniyor' = TRUE
    /\ UNCHANGED <<peer_counter, uploaded_file, checkbox, cache, file_key, db>>
    /\ UNCHANGED session
    /\ UNCHANGED <<nodes, upload_images, has_callback, toplam_eser, artworks,
                   lot_counter, i, j, k, sahip, lines, pc, cloudinary, asset_log,
                   warnings, progress_calls, spans, n_calls, prev>>

(* l.415-417, l.492-508: _do_upload takes a docx_bytes_ key of the session *)
(* (whichever the iteration over st.session_state gives first) and calls   *)
(* parse on its bytes for the count, without upload or callback.           *)
DoUploadBegin ==
    /\ yukleniyor
    /\ file_key = NoKey
    /\ \E key \in DOMAIN cache :
          /\ file_key' = key
          /\ ParseEntry(cache[key], FALSE, FALSE)
    /\ UNCHANGED <<peer_counter, uploaded_file, checkbox, yukleniyor, cache, db>>
    /\ UNCHANGED session

(* l.509-524: the count is known; parse is called again on the same bytes, *)
(* with upload_images=gorsel_yukle and the progress callback.              *)
DoUploadParse ==
    /\ file_key # NoKey
    /\ pc = "done"
    /\ ~has_callback
    /\ ParseEntry(cache[file_key], GorselYukleTercih, TRUE)
    /\ UNCHANGED outer
    /\ UNCHANGED session

(* l.527-541 with insert_many succeeding, then the rerun's l.454-464.      *)
DoUploadInsert ==
    /\ file_key # NoKey
    /\ pc = "done"
    /\ has_callback
    /\ db' = Append(db, [dosya_adi |-> file_key, kayitlar |-> artworks])
    /\ cache' = CacheAfterRender(CacheWithout(cache, file_key), uploaded_file)
    /\ yukleniyor' = FALSE
    /\ file_key' = NoKey
    /\ UNCHANGED <<peer_counter, uploaded_file, checkbox>>
    /\ UNCHANGED session
    /\ UNCHANGED <<nodes, upload_images, has_callback, toplam_eser, artworks,
                   lot_counter, i, j, k, sahip, lines, pc, cloudinary, asset_log,
                   warnings, progress_calls, spans, n_calls, prev>>

(* l.530 raising, l.537-541: the key stays in the session.                 *)
DoUploadInsertFails ==
    /\ file_key # NoKey
    /\ pc = "done"
    /\ has_callback
    /\ cache' = CacheAfterRender(cache, uploaded_file)
    /\ yukleniyor' = FALSE
    /\ file_key' = NoKey
    /\ UNCHANGED <<peer_counter, uploaded_file, checkbox, db>>
    /\ UNCHANGED session
    /\ UNCHANGED <<nodes, upload_images, has_callback, toplam_eser, artworks,
                   lot_counter, i, j, k, sahip, lines, pc, cloudinary, asset_log,
                   warnings, progress_calls, spans, n_calls, prev>>

(* The callback of l.520-523 does not raise (done / total is in (0, 1]),   *)
(* so CallbackRaises is no step of a session.                              *)
NextUI ==
    \/ \E name \in UiNames, doc \in UiDocs : SelectFile(name, doc)
    \/ RemoveFile
    \/ ToggleCheckbox
    \/ ClickAdd
    \/ DoUploadBegin
    \/ DoUploadParse
    \/ SkipNonImage
    \/ Captionless
    \/ BeginLot
    \/ AssetSkipped
    \/ ExtractNothing
    \/ UploadOk
    \/ UploadFails
    \/ Notify
    \/ Return
    \/ DoUploadInsert
    \/ DoUploadInsertFails

SpecUI == InitStore /\ [][NextUI]_vars

(* _do_upload called on any session: render calls it when yukleniyor is    *)
(* set (l.415-417), whatever docx_bytes_ entries the session holds and     *)
(* whatever file the uploader holds.                                       *)
UiFiles == {NoFile} \cup { [name |-> name, doc |-> doc] : name \in UiNames, doc \in UiDocs }

CacheStates == UNION { [D -> UiDocs] : D \in SUBSET UiNames }

InitDoUpload ==
    /\ nodes = <<>>
    /\ upload_images = FALSE
    /\ has_callback = FALSE
    /\ toplam_eser = 0
    /\ artworks = <<>>
    /\ lot_counter = 0
    /\ i = 1 /\ j = 1 /\ k = 1
    /\ sahip = EMPTY
    /\ lines = <<>>
    /\ pc = "idle"
    /\ cloudinary = <<>>
    /\ asset_log = <<>>
    /\ warnings = <<>>
    /\ progress_calls = <<>>
    /\ spans = <<>>
    /\ n_calls = 0
    /\ prev = NoPrev
    /\ peer_counter = 0
    /\ uploaded_file \in UiFiles
    /\ checkbox \in BOOLEAN
    /\ yukleniyor = TRUE
    /\ cache \in CacheStates
    /\ file_key = NoKey
    /\ db = <<>>
    /\ auth_state = <<>>
    /\ clock = 0
    /\ view = "none"

(* Mutant: the branch without a key leaves the flag as it is.              *)
YukleniyorAfter_NoKeyKeeps(outcome) == outcome = "no_key"

(* l.496 and l.540: the flag when _do_upload ends, however it ends.        *)
YukleniyorAfter(outcome) == FALSE

(* l.492-497: no docx_bytes_ key in the session.                           *)
DoUploadNoFile ==
    /\ yukleniyor
    /\ file_key = NoKey
    /\ DOMAIN cache = {}
    /\ yukleniyor' = YukleniyorAfter("no_key")
    /\ UNCHANGED <<peer_counter, uploaded_file, checkbox, cache, file_key, db>>
    /\ UNCHANGED session
    /\ UNCHANGED <<nodes, upload_images, has_callback, toplam_eser, artworks,
                   lot_counter, i, j, k, sahip, lines, pc, cloudinary, asset_log,
                   warnings, progress_calls, spans, n_calls, prev>>

(* l.516-524 raising out of parse, l.537-541, then the rerun's l.454-464:  *)
(* the key stays in the session.                                           *)
DoUploadRaised ==
    /\ file_key # NoKey
    /\ pc = "raised"
    /\ cache' = CacheAfterRender(cache, uploaded_file)
    /\ yukleniyor' = YukleniyorAfter("raised")
    /\ file_key' = NoKey
    /\ UNCHANGED <<peer_counter, uploaded_file, checkbox, db>>
    /\ UNCHANGED session
    /\ UNCHANGED <<nodes, upload_images, has_callback, toplam_eser, artworks,
                   lot_counter, i, j, k, sahip, lines, pc, cloudinary, asset_log,
                   warnings, progress_calls, spans, n_calls, prev>>

(* One run of _do_upload, every way it can end; the callback may fail.     *)
NextDoUpload ==
    \/ DoUploadNoFile
    \/ DoUploadBegin
    \/ DoUploadParse
    \/ SkipNonImage
    \/ Captionless
    \/ BeginLot
    \/ AssetSkipped
    \/ ExtractNothing
    \/ UploadOk
    \/ UploadFails
    \/ Notify
    \/ CallbackRaises
    \/ Return
    \/ DoUploadRaised
    \/ DoUploadInsert
    \/ DoUploadInsertFails

(* A run that has started goes on to its end.                              *)
SpecDoUpload == InitDoUpload /\ [][NextDoUpload]_vars /\ WF_vars(NextDoUpload)

---------------------------------------------------------------------------
(* SessionManager, l.143-179, and Application.run, l.684-689. The session  *)
(* is the dictionary auth_state; a login_time is None or <<hour>>.         *)

(* l.144 *)
TIMEOUT_HOURS == 1

None == <<>>

(* l.148-151: each key gets its default only when it is absent.            *)
Initialized(s) ==
    [ key \in DOMAIN s \cup {"authenticated", "login_time"} |->
        IF key \in DOMAIN s THEN s[key]
        ELSE IF key = "authenticated" THEN FALSE ELSE None ]

(* l.155: st.session_state.get("authenticated", False).                    *)
IsAuthenticated(s) ==
    IF "authenticated" \in DOMAIN s THEN s["authenticated"] ELSE FALSE

(* l.167-168 *)
LoggedIn(s, now) ==
    [ key \in DOMAIN s \cup {"authenticated", "login_time"} |->
        IF key = "authenticated" THEN TRUE
        ELSE IF key = "login_time" THEN <<now>> ELSE s[key] ]

(* Mutant: logout forgets the flag and keeps the time.                     *)
LoggedOut_KeepsTime(s) ==
    [ key \in DOMAIN s \cup {"authenticated", "login_time"} |->
        IF key = "authenticated" THEN FALSE
        ELSE IF key \in DOMAIN s THEN s[key] ELSE None ]

(* l.172-173 *)
LoggedOut(s) ==
    [ key \in DOMAIN s \cup {"authenticated", "login_time"} |->
        IF key = "authenticated" THEN FALSE
        ELSE IF key = "login_time" THEN None ELSE s[key] ]

(* l.159-160: the three conditions of check_timeout.                       *)
TimedOut(s, now) ==
    IF IsAuthenticated(s)
    THEN IF s["login_time"] # None
         THEN now - s["login_time"][1] > TIMEOUT_HOURS
         ELSE FALSE
    ELSE FALSE

(* l.158-163: the session after check_timeout.                             *)
AfterCheckTimeout(s, now) == IF TimedOut(s, now) THEN LoggedOut(s) ELSE s

(* l.685-689: a timeout ends the run with st.rerun() before any view is    *)
(* rendered; else the flag chooses the view.                               *)
ViewOf(s, now) ==
    IF TimedOut(s, now) THEN "rerun"
    ELSE IF IsAuthenticated(s) THEN "main" ELSE "login"

Rest == <<nodes, upload_images, has_callback, toplam_eser, artworks,
          lot_counter, i, j, k, sahip, lines, pc, cloudinary, asset_log,
          warnings, progress_calls, spans, n_calls, prev, outer>>

(* Time passes.                                                            *)
Tick ==
    /\ clock < MaxClock
    /\ clock' = clock + 1
    /\ UNCHANGED <<auth_state, view, Rest>>

(* l.147-151 *)
Initialize ==
    /\ auth_state' = Initialized(auth_state)
    /\ UNCHANGED <<clock, view, Rest>>

(* l.166-168 *)
Login ==
    /\ auth_state' = LoggedIn(auth_state, clock)
    /\ UNCHANGED <<clock, view, Rest>>

(* l.171-173 *)
Logout ==
    /\ auth_state' = LoggedOut(auth_state)
    /\ UNCHANGED <<clock, view, Rest>>

(* l.157-163 *)
CheckTimeout ==
    /\ auth_state' = AfterCheckTimeout(auth_state, clock)
    /\ UNCHANGED <<clock, view, Rest>>

(* l.684-689: check_timeout, then the view.                                *)
ApplicationRun ==
    /\ auth_state' = AfterCheckTimeout(auth_state, clock)
    /\ view' = ViewOf(auth_state, clock)
    /\ UNCHANGED <<clock, Rest>>

NextSession ==
    \/ Tick
    \/ Initialize
    \/ Login
    \/ Logout
    \/ CheckTimeout
    \/ ApplicationRun

SpecSession == InitStore /\ [][NextSession]_vars

---------------------------------------------------------------------------
(* Vocabulary of the properties.                                           *)

(* Index of the first node after p that is an image or has text, 0 if no   *)
(* such node exists.                                                       *)
NextMeaningful(ns, p) ==
    LET cand == { q \in (p + 1)..Len(ns) : ns[q].is_img \/ ns[q].text # EMPTY }
    IN  IF cand = {} THEN 0 ELSE CHOOSE q \in cand : \A r \in cand : q <= r

(* The image at p has a caption: its next meaningful node is a text node.  *)
HasCaption(ns, p) ==
    LET q == NextMeaningful(ns, p)
    IN  q # 0 /\ ns[q].text # EMPTY /\ ~ns[q].is_img

(* The same, reading "carries non-empty text" for the next node alone.     *)
HasTextAhead(ns, p) ==
    LET q == NextMeaningful(ns, p)
    IN  q # 0 /\ ns[q].text # EMPTY

ImageIdx(ns) == { p \in 1..Len(ns) : ns[p].is_img }

LotImages == { spans[n].i : n \in 1..Len(spans) }

---------------------------------------------------------------------------
(* C1: the lots carry lot_no 1, 2, ..., k in list order, without gap or    *)
(* repeat, and lie in the order of their image nodes in the document.      *)
C1_LotNoSequential ==
    /\ Len(spans) = Len(artworks)
    /\ \A n \in 1..Len(artworks) :
        /\ artworks[n].lot_no = n
        /\ spans[n].i \in ImageIdx(nodes)
        /\ n > 1 => spans[n - 1].i < spans[n].i

C1_Witness ==
    /\ pc = "done"
    /\ Len(artworks) >= 2
    /\ artworks[2].lot_no = 2

(* C2 as stated: a lot for an image iff the next node after the blank      *)
(* nodes carries text, its text being the owner; as many lots as such      *)
(* images.                                                                 *)
C2_LotIffTextAhead ==
    pc = "done" =>
        /\ LotImages = { p \in ImageIdx(nodes) : HasTextAhead(nodes, p) }
        /\ Len(artworks) = Cardinality({ p \in ImageIdx(nodes) : HasTextAhead(nodes, p) })

(* C2, amended: a lot for an image iff the next node after the blank nodes *)
(* is not an image and carries text; that text is the owner; the number of *)
(* lots is the number of such images; no image, no lot.                    *)
C2_LotIffCaption ==
    pc = "done" =>
        /\ LotImages = { p \in ImageIdx(nodes) : HasCaption(nodes, p) }
        /\ Len(artworks) = Cardinality({ p \in ImageIdx(nodes) : HasCaption(nodes, p) })
        /\ \A n \in 1..Len(artworks) :
              artworks[n].sahip = nodes[NextMeaningful(nodes, spans[n].i)].text
        /\ ImageIdx(nodes) = {} => artworks = <<>>

(* Two lots, the second image right after the first lot's block, and blank *)
(* nodes skipped before a caption.                                         *)
C2_Witness ==
    /\ pc = "done"
    /\ Len(artworks) >= 1
    /\ \E n \in 1..Len(artworks) : spans[n].j > spans[n].i + 1
    /\ \E p \in ImageIdx(nodes) : ~HasCaption(nodes, p)

(* C3: a step from an image whose next meaningful node is an image, or     *)
(* that has none, adds no lot, keeps lot_no and moves the cursor by one;   *)
(* no image node gets two lots.                                            *)
C3_CaptionlessStep ==
    /\ [][ ( /\ pc = "scan"
             /\ i <= Len(nodes)
             /\ nodes[i].is_img
             /\ ~HasCaption(nodes, i) )
           => ( /\ i' = i + 1
                /\ lot_counter' = lot_counter
                /\ artworks' = artworks
                /\ pc' = "scan" ) ]_vars
    /\ [](\A n, m \in 1..Len(spans) : spans[n].i = spans[m].i => n = m)

(* A captionless image followed, after a blank node, by an image that got  *)
(* its lot.                                                                *)
C3_Witness ==
    /\ pc = "done"
    /\ \E p \in ImageIdx(nodes) :
        /\ ~HasCaption(nodes, p)
        /\ NextMeaningful(nodes, p) > p + 1
        /\ NextMeaningful(nodes, p) \in LotImages

---------------------------------------------------------------------------
(* Vocabulary of the properties about one lot's block.                     *)

HasText(n) == n.text # EMPTY

(* The non-empty texts of ns[a..b], in document order.                     *)
TextsOf(ns, a, b) ==
    LET sel == SelectSeq(SubSeq(ns, a, b), HasText)
    IN  [ x \in 1..Len(sel) |-> sel[x].text ]

(* The lines collected for the lot built from span sp: the text lines      *)
(* between its owner node and the node where its collection stopped.       *)
Collected(ns, sp) == TextsOf(ns, sp.j + 1, sp.k - 1)

(* Line x of c, the empty string when c has no line x.                     *)
Pos(c, x) == IF x <= Len(c) THEN c[x] ELSE EMPTY

(* The candidate lines of a block that starts at q, however many: up to    *)
(* the next image or the first of two text-less nodes in a row.            *)
RECURSIVE BlockLines(_, _)
BlockLines(ns, q) ==
    IF q > Len(ns) THEN <<>>
    ELSE IF ns[q].is_img THEN <<>>
    ELSE IF ns[q].text # EMPTY THEN <<ns[q].text>> \o BlockLines(ns, q + 1)
    ELSE IF q + 1 <= Len(ns) /\ ns[q + 1].text = EMPTY THEN <<>>
    ELSE BlockLines(ns, q + 1)

FirstImgFrom(ns, from) ==
    LET cand == { q \in from..Len(ns) : ns[q].is_img }
    IN  IF cand = {} THEN Len(ns) + 1 ELSE CHOOSE q \in cand : \A r \in cand : q <= r

(* First q >= from such that q and q + 1 both carry no text, 0 if none.    *)
FirstDoubleEmpty(ns, from) ==
    LET cand == { q \in from..(Len(ns) - 1) : ns[q].text = EMPTY /\ ns[q + 1].text = EMPTY }
    IN  IF cand = {} THEN 0 ELSE CHOOSE q \in cand : \A r \in cand : q <= r

TextCount(ns, a, b) == Cardinality({ q \in a..b : ns[q].text # EMPTY })

LotFields(lot) ==
    { lot.sahip, lot.sanatci, lot.eser_adi, lot.detay, lot.satis_fiyati }

MaxOf(S) == CHOOSE x \in S : \A y \in S : y <= x

---------------------------------------------------------------------------
(* C4: artist, title and detail of every lot are the first, second and     *)
(* third collected line, in document order; a missing line gives the empty *)
(* string.                                                                 *)
C4_FieldsByPosition ==
    \A n \in 1..Len(artworks) :
        LET c == Collected(nodes, spans[n]) IN
        /\ \A q \in (spans[n].j + 1)..(spans[n].k - 1) : ~nodes[q].is_img
        /\ artworks[n].sanatci = Pos(c, 1)
        /\ artworks[n].eser_adi = Pos(c, 2)
        /\ artworks[n].detay = Pos(c, 3)

(* One lot with three distinct lines and one with an artist only.          *)
C4_Witness ==
    /\ pc = "done"
    /\ \E n \in 1..Len(artworks) :
        /\ artworks[n].detay # EMPTY
        /\ Cardinality({ artworks[n].sanatci, artworks[n].eser_adi, artworks[n].detay }) = 3
        /\ \E q \in (spans[n].j + 1)..(spans[n].k - 1) : nodes[q].text = EMPTY
    /\ \E n \in 1..Len(artworks) : artworks[n].sanatci = EMPTY

(* C5: sale_price is the last collected line from the third on that        *)
(* matches the monetary pattern, and empty when none does; the owner, the  *)
(* artist line and the title line are never looked at.                     *)
C5_SalePriceLastMatch ==
    \A n \in 1..Len(artworks) :
        LET c == Collected(nodes, spans[n])
            P == { x \in 3..Len(c) : IsFiyat(c[x]) }
        IN  artworks[n].satis_fiyati = IF P = {} THEN EMPTY ELSE c[MaxOf(P)]

(* A lot whose artist line looks like a price, with two matching lines     *)
(* from the third on, the later of them chosen though a plain line follows. *)
C5_Witness ==
    /\ pc = "done"
    /\ \E n \in 1..Len(artworks) :
        LET c == Collected(nodes, spans[n]) IN
        /\ Len(c) >= 5
        /\ IsFiyat(c[1])
        /\ \E x, y \in 3..(Len(c) - 1) :
            /\ x < y
            /\ IsFiyat(c[x])
            /\ IsFiyat(c[y])
            /\ \A z \in (y + 1)..Len(c) : ~IsFiyat(c[z])
            /\ artworks[n].satis_fiyati = c[y]

(* C6: no lot collects more than 6 lines, and artist, title and detail are *)
(* the first three candidate lines of the block whether or not the block   *)
(* offers a seventh; a seventh candidate line reaches no field.            *)
C6_SixLineCap ==
    \A n \in 1..Len(artworks) :
        LET c == Collected(nodes, spans[n])
            b == BlockLines(nodes, spans[n].j + 1)
        IN  /\ Len(c) <= 6
            /\ artworks[n].sanatci = Pos(b, 1)
            /\ artworks[n].eser_adi = Pos(b, 2)
            /\ artworks[n].detay = Pos(b, 3)
            /\ Len(b) >= 7 => /\ Len(c) = 6
                              /\ b[7] \notin LotFields(artworks[n])

(* A block with seven candidate lines, the seventh a price.                *)
C6_Witness ==
    /\ pc = "done"
    /\ \E n \in 1..Len(artworks) :
        LET b == BlockLines(nodes, spans[n].j + 1) IN
        /\ Len(b) >= 7
        /\ IsFiyat(b[7])
        /\ artworks[n].detay = b[3]

(* C7: when two nodes in a row carry no text inside a block, collection    *)
(* stops at the first of them and the text nodes after it, up to the next  *)
(* image, reach no field of any lot; one text-less node followed by a text *)
(* node does not stop collection.                                          *)
C7_DoubleEmptyStops ==
    \A n \in 1..Len(artworks) :
        LET from == spans[n].j + 1
            g == FirstImgFrom(nodes, from)
            d == FirstDoubleEmpty(nodes, from)
        IN  /\ (d # 0 /\ d < g /\ TextCount(nodes, from, d - 1) < 6) =>
                /\ spans[n].k = d
                /\ \A m \in (d + 1)..(g - 1) :
                      nodes[m].text # EMPTY =>
                          \A x \in 1..Len(artworks) : nodes[m].text \notin LotFields(artworks[x])
            /\ \A q \in from..(g - 2) :
                  ( /\ nodes[q].text = EMPTY
                    /\ nodes[q + 1].text # EMPTY
                    /\ (d = 0 \/ q < d)
                    /\ TextCount(nodes, from, q) < 6 )
                  => /\ spans[n].k > q + 1
                     /\ \E x \in 1..Len(Collected(nodes, spans[n])) :
                           Collected(nodes, spans[n])[x] = nodes[q + 1].text

(* A block with a line, one blank node, a line, two blank nodes and then   *)
(* more text before the next image.                                        *)
C7_Witness ==
    /\ pc = "done"
    /\ \E n \in 1..Len(artworks) :
        LET from == spans[n].j + 1
            g == FirstImgFrom(nodes, from)
            d == FirstDoubleEmpty(nodes, from)
        IN  /\ d # 0 /\ d < g
            /\ spans[n].k = d
            /\ g <= Len(nodes)
            /\ \E m \in (d + 2)..(g - 1) : nodes[m].text # EMPTY
            /\ \E q \in from..(d - 2) : nodes[q].text = EMPTY /\ nodes[q + 1].text # EMPTY
            /\ artworks[n].eser_adi # EMPTY

---------------------------------------------------------------------------
(* Vocabulary of the properties about the asset step.                      *)

(* A lot without its gorsel_url.                                           *)
TextOnly(lot) ==
    [ lot_no       |-> lot.lot_no,
      sahip        |-> lot.sahip,
      sanatci      |-> lot.sanatci,
      eser_adi     |-> lot.eser_adi,
      detay        |-> lot.detay,
      satis_fiyati |-> lot.satis_fiyati ]

TextOnlyList(lots) == [ n \in 1..Len(lots) |-> TextOnly(lots[n]) ]

AssetSteps(lot_no) ==
    { asset_log[e].step : e \in { x \in 1..Len(asset_log) : asset_log[x].lot_no = lot_no } }

---------------------------------------------------------------------------
(* C8: a second parse of the same node sequence returns the same number of *)
(* lots with the same lot_no and text fields as the first, whatever         *)
(* upload_images was in either and however extraction and upload ended;     *)
(* two parses without upload return the same list.                          *)
C8_TextFieldsDeterministic ==
    (pc = "done" /\ prev.valid) =>
        /\ TextOnlyList(artworks) = TextOnlyList(prev.lots)
        /\ (~upload_images /\ ~prev.upload_images) => artworks = prev.lots

(* Two parses that both returned two lots, the second with upload on, one  *)
(* upload failed and one stored, so that the lists differ in gorsel_url.   *)
C8_Witness ==
    /\ pc = "done"
    /\ prev.valid
    /\ upload_images
    /\ Len(artworks) = 2
    /\ "upload_raised" \in AssetSteps(1)
    /\ "upload_ok" \in AssetSteps(2)
    /\ artworks # prev.lots

(* C9: gorsel_url is non-empty only in a parse with upload_images where    *)
(* the image was extracted and its upload answered; without upload_images  *)
(* the store is not called and every gorsel_url is empty; a lot whose      *)
(* extraction or upload failed is still in the list, with empty gorsel_url. *)
C9_ImageUrlOnlyOnSuccess ==
    /\ \A n \in 1..Len(artworks) :
          artworks[n].gorsel_url # EMPTY =>
              /\ upload_images
              /\ AssetSteps(artworks[n].lot_no) = {"upload_ok"}
    /\ ~upload_images =>
          /\ asset_log = <<>>
          /\ \A n \in 1..Len(artworks) : artworks[n].gorsel_url = EMPTY
    /\ \A e \in 1..Len(asset_log) :
          /\ asset_log[e].lot_no \in 1..Len(artworks)
          /\ asset_log[e].step # "upload_ok" =>
                artworks[asset_log[e].lot_no].gorsel_url = EMPTY

(* A returned list whose first lot lost its image to a failed upload and   *)
(* whose second lot has its URL.                                           *)
C9_Witness ==
    /\ pc = "done"
    /\ upload_images
    /\ Len(artworks) = 2
    /\ AssetSteps(1) = {"upload_raised"}
    /\ artworks[1].gorsel_url = EMPTY
    /\ artworks[2].gorsel_url # EMPTY

(* C10: every asset failure of a parse with upload_images, an extraction   *)
(* that returns nothing as well as an upload that raises, leaves a warning *)
(* for the lot_no of the lot being processed.                              *)
C10_EveryAssetFailureWarned ==
    \A e \in 1..Len(asset_log) :
        asset_log[e].step \in {"extract_none", "upload_raised"} =>
            \E w \in 1..Len(warnings) : warnings[w] = asset_log[e].lot_no

---------------------------------------------------------------------------
(* Vocabulary of the properties about failures and progress.               *)

(* Processing lot n met a failure: its extraction gave nothing, its upload *)
(* raised, or the progress callback raised on it.                          *)
FailedAt(n) ==
    \/ AssetSteps(n) \cap {"extract_none", "upload_raised"} # {}
    \/ pc = "raised" /\ n = lot_counter

(* Images that have a node after them, counted without an index test.      *)
ImagesWithFollower(ns) ==
    Cardinality(ImageIdx(ns)) - (IF Len(ns) > 0 /\ ns[Len(ns)].is_img THEN 1 ELSE 0)

---------------------------------------------------------------------------
(* C11: when extraction, upload or the progress callback fails on one lot, *)
(* parse still returns, and every captioned image after that lot's image   *)
(* has its lot in the returned list.                                       *)
C11_FailureNeverAborts ==
    pc \in {"done", "raised"} =>
        \A n \in 1..Len(artworks) :
            FailedAt(n) =>
                \A p \in ImageIdx(nodes) :
                    (p > spans[n].i /\ HasCaption(nodes, p)) =>
                        (pc = "done" /\ p \in LotImages)

(* C12: with a callback, one call per appended lot and none for a          *)
(* captionless image; call n has done = lot_no of lot n = n, and every     *)
(* call has the same total; without a callback, no call.                   *)
C12_ProgressOncePerLot ==
    /\ ~has_callback => progress_calls = <<>>
    /\ has_callback =>
          Len(progress_calls) = IF pc = "notify" THEN Len(artworks) - 1 ELSE Len(artworks)
    /\ \A n \in 1..Len(progress_calls) :
          /\ progress_calls[n].done = n
          /\ progress_calls[n].done = artworks[n].lot_no
          /\ progress_calls[n].total = progress_calls[1].total

(* A returned parse with a captionless image and two notified lots.        *)
C12_Witness ==
    /\ pc = "done"
    /\ has_callback
    /\ Len(progress_calls) = 2
    /\ Len(artworks) = 2
    /\ Cardinality(ImageIdx(nodes)) = 3

(* C13: an asset step is taken for the lot being built, after its text     *)
(* fields are fixed, before its notification and before the cursor moves;  *)
(* it leaves the earlier lots alone, a failure changes nothing but leaves  *)
(* this lot's gorsel_url empty, and the steps come one per lot in lot      *)
(* order.                                                                  *)
C13_UploadsSerialized ==
    /\ [][ (asset_log' # asset_log /\ asset_log' # <<>>) =>
             LET n == lot_counter
                 step == asset_log'[Len(asset_log')].step
                 P == { x \in 3..Len(lines) : IsFiyat(lines[x]) }
             IN  /\ pc = "asset" /\ pc' = "notify"
                 /\ Len(asset_log') = Len(asset_log) + 1
                 /\ asset_log'[Len(asset_log')].lot_no = n
                 /\ Len(artworks) = n - 1
                 /\ Len(artworks') = n
                 /\ \A m \in 1..Len(artworks) : artworks'[m] = artworks[m]
                 /\ artworks'[n].lot_no = n
                 /\ artworks'[n].sahip = sahip
                 /\ artworks'[n].sanatci = Pos(lines, 1)
                 /\ artworks'[n].eser_adi = Pos(lines, 2)
                 /\ artworks'[n].detay = Pos(lines, 3)
                 /\ artworks'[n].satis_fiyati = IF P = {} THEN EMPTY ELSE lines[MaxOf(P)]
                 /\ sahip' = sahip /\ lines' = lines
                 /\ i' = i
                 /\ progress_calls' = progress_calls
                 /\ has_callback => Len(progress_calls) = n - 1
                 /\ step # "upload_ok" =>
                       /\ artworks'[n].gorsel_url = EMPTY
                       /\ cloudinary' = cloudinary
         ]_vars
    /\ [](\A e \in 1..Len(asset_log) : asset_log[e].lot_no = e)

(* A returned parse whose first upload raised and whose second was stored, *)
(* both lots with lines and notified.                                      *)
C13_Witness ==
    /\ pc = "done"
    /\ upload_images
    /\ has_callback
    /\ Len(progress_calls) = 2
    /\ AssetSteps(1) = {"upload_raised"}
    /\ AssetSteps(2) = {"upload_ok"}
    /\ artworks[1].detay # EMPTY

(* C17: the total handed to the callback is the number of image nodes that *)
(* have a node after them, captionless or not; it is fixed at entry and    *)
(* stays so through the pass.                                              *)
C17_TotalCountsFollowedImages ==
    /\ pc # "idle" => toplam_eser = ImagesWithFollower(nodes)
    /\ \A n \in 1..Len(progress_calls) :
          progress_calls[n].total = ImagesWithFollower(nodes)

(* A document that ends in an image and has a captionless image before a   *)
(* captioned one: total 2, one lot.                                        *)
C17_Witness ==
    /\ pc = "done"
    /\ has_callback
    /\ Len(progress_calls) = 1
    /\ progress_calls[1].total = 2
    /\ nodes[Len(nodes)].is_img
    /\ \E p \in ImageIdx(nodes) : p < Len(nodes) /\ ~HasCaption(nodes, p)

(* C20: every call of the callback has 1 <= done <= total, and the lots    *)
(* built so far never outnumber the total.                                 *)
C20_DoneWithinTotal ==
    /\ \A n \in 1..Len(progress_calls) :
          /\ 1 <= progress_calls[n].done
          /\ progress_calls[n].done <= progress_calls[n].total
          /\ progress_calls[n].total # 0
    /\ pc # "idle" => lot_counter <= toplam_eser

(* Two calls, the last with done = total = 2.                              *)
C20_Witness ==
    /\ pc = "done"
    /\ Len(progress_calls) = 2
    /\ progress_calls[1].done < progress_calls[1].total
    /\ progress_calls[2].done = progress_calls[2].total

---------------------------------------------------------------------------
(* The monetary predicate as described: a digit, then any number (zero     *)
(* included) of digits and grouping characters, then optional whitespace,  *)
(* then a currency marker.                                                 *)
HasAmount(text) ==
    \E s \in 1..Len(text) : \E e \in s..Len(text) : \E m \in (e + 1)..Len(text) :
        /\ IsDigit(text[s])
        /\ \A x \in (s + 1)..e : IsGroupChar(text[x])
        /\ \A x \in (e + 1)..(m - 1) : IsSpace(text[x])
        /\ MarkerAt(text, m)

(* C16: the last collected line of the lot is taken as its sale price      *)
(* (_is_fiyat is true of it) exactly when it holds a digit run of any      *)
(* length, one digit included, followed by a currency marker.              *)
C16_FiyatIffAmount ==
    (pc = "done" /\ Len(artworks) = 1 /\ Len(nodes) = Len(FiyatPrefix) + 1) =>
        ((artworks[1].satis_fiyati # EMPTY) <=> HasAmount(nodes[Len(nodes)].text))

---------------------------------------------------------------------------
(* C14: a successful upload puts the image's bytes in the slot             *)
(* lot_<lot_no> of the lot being built, replacing what an earlier pass     *)
(* left there, and touches no other slot; no other step changes the store; *)
(* within a pass every lot has its own key, and each slot written in the   *)
(* pass holds the bytes of that pass's upload.                             *)
C14_SlotHoldsLatestUpload ==
    /\ [][ IF /\ asset_log' # asset_log
              /\ asset_log' # <<>>
              /\ asset_log'[Len(asset_log')].step = "upload_ok"
           THEN LET key == PublicId(lot_counter) IN
                /\ DOMAIN cloudinary' = DOMAIN cloudinary \cup {key}
                /\ cloudinary'[key] = ImgBytes(nodes, i)
                /\ \A other \in DOMAIN cloudinary \ {key} :
                      cloudinary'[other] = cloudinary[other]
           ELSE cloudinary' = cloudinary
         ]_vars
    /\ [](\A e1, e2 \in 1..Len(asset_log) :
             e1 # e2 => PublicId(asset_log[e1].lot_no) # PublicId(asset_log[e2].lot_no))
    /\ [](\A n \in 1..Len(artworks) :
             "upload_ok" \in AssetSteps(n) =>
                 /\ PublicId(n) \in DOMAIN cloudinary
                 /\ cloudinary[PublicId(n)] = ImgBytes(nodes, spans[n].i))

(* A second pass, over another document, stored its two images under the   *)
(* keys where the first pass had stored its own.                           *)
C14_Witness ==
    /\ pc = "done"
    /\ prev.valid
    /\ prev.nodes # nodes
    /\ Len(prev.lots) = 2
    /\ \A n \in 1..2 : prev.lots[n].gorsel_url # EMPTY
    /\ Len(artworks) = 2
    /\ \A n \in 1..2 : AssetSteps(n) = {"upload_ok"}
    /\ cloudinary[PublicId(1)] = ImgBytes(nodes, spans[1].i)
    /\ cloudinary[PublicId(2)] = ImgBytes(nodes, spans[2].i)
    /\ spans[1].i # spans[2].i

---------------------------------------------------------------------------
(* A returned parse holds the list and the total of a parse running alone. *)
ListAsAlone ==
    pc = "done" =>
        /\ TextOnlyList(artworks) = TextOnlyList(Kayitlar(nodes))
        /\ toplam_eser = ToplamEser(nodes)

(* C15: with another parse running alongside, a parse returns the list     *)
(* (lot numbers, text fields) and the total it returns alone, its own      *)
(* steps leave the shared asset store as it is, and the store is not       *)
(* changed under it: a lot's gorsel_url leads to that lot's image.         *)
C15_NoInterference ==
    /\ []ListAsAlone
    /\ [][peer_counter' = peer_counter => cloudinary' = cloudinary]_vars
    /\ [](pc = "done" =>
             \A n \in 1..Len(artworks) :
                 artworks[n].gorsel_url # EMPTY =>
                     cloudinary[PublicId(n)] = ImgBytes(nodes, spans[n].i))

---------------------------------------------------------------------------
(* C18: when the box "Görselleri yükle" is unticked, the inserting parse   *)
(* of _do_upload runs with upload_images false, stores no asset, and every *)
(* lot it inserts has an empty gorsel_url.                                 *)
C18_UncheckedMeansNoUpload ==
    /\ []((file_key # NoKey /\ has_callback /\ ~checkbox) =>
             /\ ~upload_images
             /\ \A e \in 1..Len(asset_log) : asset_log[e].step # "upload_ok"
             /\ \A n \in 1..Len(artworks) : artworks[n].gorsel_url = EMPTY)
    /\ [][(db' # db /\ ~checkbox) =>
             \A n \in 1..Len(db'[Len(db')].kayitlar) :
                 db'[Len(db')].kayitlar[n].gorsel_url = EMPTY]_vars

(* C19: the batch _do_upload inserts is the lot list of the document in    *)
(* the file the uploader holds, under that file's name.                    *)
C19_InsertsSelectedDocument ==
    [][db' # db =>
         LET batch == db'[Len(db')] IN
             /\ batch.dosya_adi = uploaded_file.name
             /\ nodes = uploaded_file.doc
             /\ TextOnlyList(batch.kayitlar) = TextOnlyList(Kayitlar(uploaded_file.doc))
      ]_vars

---------------------------------------------------------------------------
(* C21: parse terminates: each iteration of the outer loop moves i forward *)
(* (by one for a non-image node or a captionless image; to k, with         *)
(* k >= j + 1 > i, after a lot), the lookahead j and the collection index  *)
(* k end ahead of where they start, no cursor moves back, and a running    *)
(* parse comes to its end.                                                 *)
C21_ParseTerminates ==
    /\ [][ /\ (pc = "scan" /\ pc' = "scan") =>
                 (i <= Len(nodes) /\ i' = i + 1)
           /\ (pc = "scan" /\ pc' = "asset") =>
                 /\ i' = i
                 /\ j' >= i + 1 /\ j' <= Len(nodes)
                 /\ k' >= j' + 1 /\ k' <= Len(nodes) + 1
           /\ pc = "asset" => (i' = i /\ j' = j /\ k' = k)
           /\ (pc = "notify" /\ pc' = "scan") =>
                 (i' = k /\ k >= j + 1 /\ j + 1 > i /\ i' > i)
           /\ pc \in {"scan", "asset", "notify"} => i' >= i
         ]_vars
    /\ (pc \in {"scan", "asset", "notify"} ~> pc \in {"done", "raised"})

(* A returned parse that skipped a paragraph, passed a captionless image   *)
(* and built a lot from the image after it.                                *)
C21_Witness ==
    /\ pc = "done"
    /\ Len(nodes) = 4
    /\ ~nodes[1].is_img
    /\ Len(artworks) = 1
    /\ spans[1].i = 3
    /\ i = 5

---------------------------------------------------------------------------
(* Hours since the login the session records.                              *)
Elapsed(s, now) == now - s["login_time"][1]

HasLoginTime(s) ==
    IF "login_time" \in DOMAIN s THEN s["login_time"] # None ELSE FALSE

BothReset(s) ==
    /\ DOMAIN s = {"authenticated", "login_time"}
    /\ s["authenticated"] = FALSE
    /\ s["login_time"] = None

(* C22: an authenticated session has a login_time; Application.run renders *)
(* the main view exactly when the session is authenticated and at most     *)
(* TIMEOUT_HOURS have passed since login, and the login view when it is    *)
(* not authenticated; logout and a timeout reset both keys, and the run    *)
(* after them renders the login view.                                      *)
C22_SessionGate ==
    /\ [](IsAuthenticated(auth_state) => HasLoginTime(auth_state))
    /\ [][ApplicationRun =>
             /\ view' = "main" <=>
                  (IsAuthenticated(auth_state) /\ HasLoginTime(auth_state)
                      /\ Elapsed(auth_state, clock) <= TIMEOUT_HOURS)
             /\ ~IsAuthenticated(auth_state) => view' = "login"
             /\ view' = "rerun" => BothReset(auth_state')
         ]_vars
    /\ [][Logout => BothReset(auth_state')]_vars
    /\ [][(CheckTimeout /\ IsAuthenticated(auth_state)
                 /\ Elapsed(auth_state, clock) > TIMEOUT_HOURS)
             => BothReset(auth_state')]_vars

(* A run found the session timed out: both keys are reset and no view was  *)
(* rendered.                                                               *)
C22_Witness ==
    /\ view = "rerun"
    /\ BothReset(auth_state)
    /\ clock > TIMEOUT_HOURS

---------------------------------------------------------------------------
(* C23: every run of _do_upload ends with yukleniyor false, whichever way  *)
(* it ends (no cached key, parse raising, insert raising, insert done),    *)
(* so a session in the uploading state leaves it; a docx_bytes_ entry is   *)
(* deleted only by a run that has inserted its lots.                       *)
C23_UploadFlagReleased ==
    /\ [][(vars' # vars /\ yukleniyor /\ file_key' = NoKey) => ~yukleniyor']_vars
    /\ [][yukleniyor' => yukleniyor]_vars
    /\ (yukleniyor ~> ~yukleniyor)
    /\ [][\A key \in DOMAIN cache :
             (IF key \in DOMAIN cache' THEN cache'[key] # cache[key] ELSE TRUE) =>
                 /\ key = file_key
                 /\ pc = "done"
                 /\ db' = Append(db, [dosya_adi |-> file_key, kayitlar |-> artworks])]_vars
    /\ [][(file_key # NoKey /\ file_key' = NoKey /\ db' = db) =>
             (file_key \in DOMAIN cache' /\ cache'[file_key] = cache[file_key])]_vars

(* A run ended by an exception out of parse: the flag is released, the     *)
(* bytes are still in the session and nothing was inserted.                *)
C23_Witness ==
    /\ pc = "raised"
    /\ file_key = NoKey
    /\ ~yukleniyor
    /\ db = <<>>
    /\ cache # <<>>
    /\ n_calls = 2

===========================================================================
